---- MODULE Spec2Model ----
(***************************************************************************)
(* Model of the identifier-resolution layer of src/api.rs (ApiClient):    *)
(*   get_all_tags / get_tag_ids_matching   (tag catalog, locale matching)  *)
(*   find_reward                           (three-tier reward matching)    *)
(*   get_broadcaster_id                    (broadcaster identity)          *)
(* Option<T> is modelled as a sequence of length 0 (None) or 1 (Some).     *)
(* Strings are sequences of one-letter characters, so that the case        *)
(* conversions are computed letter by letter.                              *)
(***************************************************************************)
EXTENDS Integers, Sequences, FiniteSets, TLC

VARIABLES
    \* ---- remote side (inputs of a call) ----
    remote,       \* behaviour of the tag endpoint for this call
    \* ---- get_tag_ids_matching / get_all_tags ----
    names,        \* parameter `tags: &[String]`, the requested names
    locale,       \* parameter `locale: &str`
    tags,         \* local `tags` of get_all_tags, the accumulator
    pagination,   \* local `pagination` of get_all_tags
    requests,     \* requests sent so far, in order
    responses,    \* responses received so far, in order
    tpc,          \* position of the call: "request", "await", "done", "failed", "idle"
    picked,       \* per requested name, the catalog index the scan returned on (0: None)
    result,       \* return value of get_tag_ids_matching
    \* ---- find_reward ----
    query,        \* parameter `query: &str`
    rewards,      \* local `rewards`, the catalog get_rewards returned
    matcher,      \* lowercase titles the FuzzyFilter built from the query accepts
    consulted,    \* tiers evaluated so far, in order
    rpc,          \* position of the call: "call", "await", "tier1", "tier2", "tier3", "done", "idle"
    found,        \* return value of find_reward
    \* ---- get_broadcaster_id ----
    ident,        \* parameter `broadcaster_ident: UserIdent`
    self_user,    \* field `user` of the client
    lookups,      \* get_users calls made so far, in order
    userlist,     \* answer of get_users
    bpc,          \* position of the call: "call", "await", "done", "idle"
    broadcaster   \* return value of get_broadcaster_id

tagVars == <<remote, names, locale, tags, pagination, requests, responses, tpc, picked, result>>
rewardVars == <<query, rewards, matcher, consulted, rpc, found>>
userVars == <<ident, self_user, lookups, userlist, bpc, broadcaster>>

vars == <<tagVars, rewardVars, userVars>>

\* ------------------------------------------------------------------ bounds
MaxTags == 2          \* tags in a hand-enumerated catalog
MaxNames == 2         \* requested names in one call
MaxTotalItems == 201  \* items held by the paging provider
MaxPages == 3         \* responses of a scripted remote
MaxPageLen == 1       \* items in one page of a scripted remote
MaxRewards == 3       \* rewards in the catalog of one broadcaster
MaxUsers == 2         \* users in one answer of get_users

\* ------------------------------------------------------------------ Option, strings
None == <<>>
Some(x) == <<x>>

Str_Foo == <<"F", "o", "o">>
Str_foo == <<"f", "o", "o">>
Str_FOO == <<"F", "O", "O">>
Str_bar == <<"b", "a", "r">>
Str_BAR == <<"B", "A", "R">>

AsciiUpper == ("F" :> "f") @@ ("O" :> "o") @@ ("B" :> "b") @@ ("A" :> "a") @@ ("R" :> "r")

ToAsciiLowercaseChar(c) == IF c \in DOMAIN AsciiUpper THEN AsciiUpper[c] ELSE c

\* str::eq_ignore_ascii_case: same length and letters equal after ASCII lowering
EqIgnoreAsciiCase(a, b) ==
    /\ Len(a) = Len(b)
    /\ \A i \in 1..Len(a) : ToAsciiLowercaseChar(a[i]) = ToAsciiLowercaseChar(b[i])

Min(a, b) == IF a < b THEN a ELSE b

\* ------------------------------------------------------------------ tags
Locales == {"de-de", "en-us"}

PageSize == 100

Errors == {"timeout", "unauthorized"}

TwitchTag(id, loc_names, auto) == [id |-> id, localization_names |-> loc_names, is_auto |-> auto]

\* HashMap::get on localization_names
Get(tag_obj, loc) == tag_obj.localization_names[loc]

\* the first arm without its check of is_auto
LocaleArmAnyTag(tag_obj, tag, loc) ==
    /\ Get(tag_obj, loc) # None
    /\ EqIgnoreAsciiCase(Get(tag_obj, loc)[1], tag)

\* first match arm of the scan: (Some(loc_name), _) with its guard
LocaleArm(tag_obj, tag, loc) ==
    /\ Get(tag_obj, loc) # None
    /\ EqIgnoreAsciiCase(Get(tag_obj, loc)[1], tag)
    /\ ~tag_obj.is_auto

\* the second arm comparing the English name case-sensitively
EnglishArmCaseSensitive(tag_obj, tag, loc) ==
    /\ Get(tag_obj, loc) = None
    /\ Get(tag_obj, "en-us") # None
    /\ Get(tag_obj, "en-us")[1] = tag
    /\ ~tag_obj.is_auto

\* second match arm of the scan: (None, Some(en_name)) with its guard
EnglishArm(tag_obj, tag, loc) ==
    /\ Get(tag_obj, loc) = None
    /\ Get(tag_obj, "en-us") # None
    /\ EqIgnoreAsciiCase(Get(tag_obj, "en-us")[1], tag)
    /\ ~tag_obj.is_auto

\* the `match` of one catalog entry against one requested name
TagMatches(tag_obj, tag, loc) == LocaleArm(tag_obj, tag, loc) \/ EnglishArm(tag_obj, tag, loc)

\* the scan returning on the last matching entry instead of the first
ScanCatalogLast(all_tags, tag, loc) ==
    IF \E i \in 1..Len(all_tags) : TagMatches(all_tags[i], tag, loc)
    THEN CHOOSE i \in 1..Len(all_tags) :
            /\ TagMatches(all_tags[i], tag, loc)
            /\ \A j \in (i + 1)..Len(all_tags) : ~TagMatches(all_tags[j], tag, loc)
    ELSE 0

\* the `for tag_obj in all_tags.iter()` loop: index of the entry it returns on, 0 for None
ScanCatalog(all_tags, tag, loc) ==
    IF \E i \in 1..Len(all_tags) : TagMatches(all_tags[i], tag, loc)
    THEN CHOOSE i \in 1..Len(all_tags) :
            /\ TagMatches(all_tags[i], tag, loc)
            /\ \A j \in 1..(i - 1) : ~TagMatches(all_tags[j], tag, loc)
    ELSE 0

\* what the filter_map closure returns for each requested name, in input order
ClosureResults(all_tags, tag_names, loc) ==
    [k \in 1..Len(tag_names) |-> ScanCatalog(all_tags, tag_names[k], loc)]

\* filter_map(..).collect(): the ids of the Some results, in input order
RECURSIVE CollectIds(_, _)
CollectIds(all_tags, picks) ==
    IF picks = <<>> THEN <<>>
    ELSE IF Head(picks) = 0 THEN CollectIds(all_tags, Tail(picks))
    ELSE <<all_tags[Head(picks)].id>> \o CollectIds(all_tags, Tail(picks))

Pending == [kind |-> "Pending", ids |-> <<>>, err |-> "-"]
Ok(ids) == [kind |-> "Ok", ids |-> ids, err |-> "-"]
Err(e) == [kind |-> "Err", ids |-> <<>>, err |-> e]

\* ---- the remote tag endpoint
PageOk(data, next) == [ok |-> TRUE, data |-> data, pagination |-> next, err |-> "-"]
PageErr(e) == [ok |-> FALSE, data |-> <<>>, pagination |-> None, err |-> e]

\* A provider that holds `catalog` and serves it `first` items at a time: the cursor
\* is the offset of the next page, present while the page served is full.
ProviderPage(catalog, req) ==
    LET offset == IF req.after = None THEN 0 ELSE req.after[1]
        last == Min(offset + req.first, Len(catalog))
        data == SubSeq(catalog, offset + 1, last)
    IN PageOk(data, IF Len(data) = req.first THEN Some(offset + req.first) ELSE None)

\* the answer of the remote to the n-th request `req`
Respond(rem, n, req) ==
    IF rem.kind = "script" THEN rem.script[n]
    ELSE IF rem.failAt = n THEN PageErr(rem.err)
    ELSE ProviderPage(rem.catalog, req)

Provider(catalog, failAt, e) == [kind |-> "provider", catalog |-> catalog, failAt |-> failAt, err |-> e]
Script(s) == [kind |-> "script", script |-> s]

\* ---- get_all_tags, one request at a time
\* the request built without the cursor
BuildRequestNoCursor(after) == [after |-> None, first |-> PageSize]

\* GetAllStreamTagsRequest::builder().after(pagination).first(Some(100)).build()
BuildRequest(after) == [after |-> after, first |-> PageSize]

SendRequest ==
    /\ tpc = "request"
    /\ requests' = Append(requests, BuildRequest(pagination))
    /\ tpc' = "await"
    /\ UNCHANGED <<remote, names, locale, tags, pagination, responses, picked, result>>
    /\ UNCHANGED <<rewardVars, userVars>>

\* tags.append(&mut res.data)
AppendPage(acc, data) == acc \o data

\* the loop left after its first page
LoopBreaksAlways(next) == TRUE

\* `if pagination == None { break; }`
LoopBreaks(next) == next = None

\* Ok(tags.iter().filter_map(..).collect()) over the value of get_all_tags()
MatchResult(all_tags, picks) == Ok(CollectIds(all_tags, picks))

ReceivePage ==
    /\ tpc = "await"
    /\ LET res == Respond(remote, Len(requests), requests[Len(requests)])
       IN /\ res.ok
          /\ responses' = Append(responses, res)
          /\ tags' = AppendPage(tags, res.data)
          /\ pagination' = res.pagination
          /\ IF LoopBreaks(res.pagination)
             THEN /\ tpc' = "done"
                  /\ picked' = ClosureResults(tags', names, locale)
                  /\ result' = MatchResult(tags', picked')
             ELSE /\ tpc' = "request"
                  /\ UNCHANGED <<picked, result>>
    /\ UNCHANGED <<remote, names, locale, requests>>
    /\ UNCHANGED <<rewardVars, userVars>>

\* the failure swallowed: an empty list of IDs in place of the error
FetchFailedSwallowed(e) == Ok(<<>>)

\* outcome of the `?` on a failed req_get, propagated by the `?` of get_tag_ids_matching
FetchFailed(e) == Err(e)

ReceiveError ==
    /\ tpc = "await"
    /\ LET res == Respond(remote, Len(requests), requests[Len(requests)])
       IN /\ ~res.ok
          /\ responses' = Append(responses, res)
          /\ result' = FetchFailed(res.err)
          /\ tpc' = "failed"
    /\ UNCHANGED <<remote, names, locale, tags, pagination, requests, picked>>
    /\ UNCHANGED <<rewardVars, userVars>>

NextTags == SendRequest \/ ReceivePage \/ ReceiveError

\* ------------------------------------------------------------------ rewards
CustomReward(id, title) == [id |-> id, title |-> title]

\* str::to_lowercase, letter by letter
ToLowercaseChar(c) == IF c \in DOMAIN AsciiUpper THEN AsciiUpper[c] ELSE c
ToLowercase(s) == [i \in 1..Len(s) |-> ToLowercaseChar(s[i])]

FoundPending == [kind |-> "Pending", reward |-> <<>>, err |-> "-"]
FoundSome(r) == [kind |-> "Some", reward |-> <<r>>, err |-> "-"]
FoundNone == [kind |-> "None", reward |-> <<>>, err |-> "-"]
FoundErr(e) == [kind |-> "Err", reward |-> <<>>, err |-> e]

\* rewards.iter(): the catalog positions, in catalog order
Indexes(rs) == [i \in 1..Len(rs) |-> i]

\* the exact tier returning the last exact title instead of the first
FindExactLast(rs, q) ==
    LET hits == SelectSeq(Indexes(rs), LAMBDA i : rs[i].title = q)
    IN IF hits = <<>> THEN 0 ELSE hits[Len(hits)]

\* rewards.iter().find(|r| r.title == query): index of the first exact title, 0 for None
FindExact(rs, q) ==
    LET hits == SelectSeq(Indexes(rs), LAMBDA i : rs[i].title = q)
    IN IF hits = <<>> THEN 0 ELSE hits[1]

\* rewards_ic: filter(|r| r.title.to_lowercase() == query) with query lowercased
RewardsIc(rs, q) == SelectSeq(Indexes(rs), LAMBDA i : ToLowercase(rs[i].title) = ToLowercase(q))

\* the case-insensitive tier resolving to its first candidate whenever it has any
IcResolvesAny(rewards_ic) == Len(rewards_ic) >= 1

\* `if rewards_ic.len() == 1`
IcResolves(rewards_ic) == Len(rewards_ic) = 1

\* filter(|CustomReward { title, .. }| query.matches(&title.to_lowercase()))
FuzzyCandidates(rs, accepted) == SelectSeq(Indexes(rs), LAMBDA i : ToLowercase(rs[i].title) \in accepted)

\* the fuzzy tier resolving to its first candidate whenever it has any
FuzzyResolvesAny(candidates) == Len(candidates) >= 1

\* `reward.is_some() && !rewards.next().is_some()`
FuzzyResolves(candidates) == Len(candidates) = 1

FindRewardCall ==
    /\ rpc = "call"
    /\ rpc' = "await"
    /\ UNCHANGED <<query, rewards, matcher, consulted, found>>
    /\ UNCHANGED <<tagVars, userVars>>

RewardTitles == {Str_Foo, Str_foo, Str_FOO, Str_bar}
Queries == {Str_Foo, Str_foo, Str_BAR}
LowerTitles == {ToLowercase(t) : t \in RewardTitles}

\* the remote gives every reward its own id
RewardCatalogs ==
    {[i \in 1..Len(ts) |-> CustomReward(i, ts[i])] : ts \in UNION {[1..k -> RewardTitles] : k \in 0..MaxRewards}}

\* get_rewards(id).await? succeeded
GetRewardsOk ==
    /\ rpc = "await"
    /\ \E catalog \in RewardCatalogs : rewards' = catalog
    /\ rpc' = "tier1"
    /\ UNCHANGED <<query, matcher, consulted, found>>
    /\ UNCHANGED <<tagVars, userVars>>

\* get_rewards(id).await? failed
GetRewardsErr ==
    /\ rpc = "await"
    /\ \E e \in Errors : found' = FoundErr(e)
    /\ rpc' = "done"
    /\ UNCHANGED <<query, rewards, matcher, consulted>>
    /\ UNCHANGED <<tagVars, userVars>>

Tier1 ==
    /\ rpc = "tier1"
    /\ consulted' = Append(consulted, 1)
    /\ LET hit == FindExact(rewards, query)
       IN IF hit # 0
          THEN found' = FoundSome(rewards[hit]) /\ rpc' = "done"
          ELSE found' = found /\ rpc' = "tier2"
    /\ UNCHANGED <<query, rewards, matcher>>
    /\ UNCHANGED <<tagVars, userVars>>

Tier2 ==
    /\ rpc = "tier2"
    /\ consulted' = Append(consulted, 2)
    /\ LET rewards_ic == RewardsIc(rewards, query)
       IN IF IcResolves(rewards_ic)
          THEN found' = FoundSome(rewards[rewards_ic[1]]) /\ rpc' = "done"
          ELSE found' = found /\ rpc' = "tier3"
    /\ UNCHANGED <<query, rewards, matcher>>
    /\ UNCHANGED <<tagVars, userVars>>

\* FuzzyFilter::new(&query) is a collaborator: what it accepts is any set of titles
Tier3 ==
    /\ rpc = "tier3"
    /\ consulted' = Append(consulted, 3)
    /\ \E accepted \in SUBSET LowerTitles :
          /\ matcher' = accepted
          /\ LET candidates == FuzzyCandidates(rewards, accepted)
             IN found' = IF FuzzyResolves(candidates)
                         THEN FoundSome(rewards[candidates[1]])
                         ELSE FoundNone
    /\ rpc' = "done"
    /\ UNCHANGED <<query, rewards>>
    /\ UNCHANGED <<tagVars, userVars>>

NextReward == FindRewardCall \/ GetRewardsOk \/ GetRewardsErr \/ Tier1 \/ Tier2 \/ Tier3

\* ------------------------------------------------------------------ broadcaster
IdentNone == [kind |-> "None", name |-> "-", id |-> 0]
IdentUserId(id) == [kind |-> "UserId", name |-> "-", id |-> id]
IdentUserName(name) == [kind |-> "UserName", name |-> name, id |-> 0]

User(id, login) == [id |-> id, login |-> login]

BPending == [kind |-> "Pending", id |-> 0, err |-> <<"-", "-">>]
BOk(id) == [kind |-> "Ok", id |-> id, err |-> <<"-", "-">>]
BErr(e) == [kind |-> "Err", id |-> 0, err |-> e]

\* ApiError::NoUser(name), and an error of the transport
NoUser(name) == <<"NoUser", name>>
Transport(e) == <<"Transport", e>>

UsersOk(users) == [ok |-> TRUE, users |-> users, err |-> <<"-", "-">>]
UsersErr(e) == [ok |-> FALSE, users |-> <<>>, err |-> e]
NoAnswer == [ok |-> FALSE, users |-> <<>>, err |-> <<"-", "-">>]

\* the arms UserIdent::None and UserIdent::UserId: no remote call
ResolveLocal ==
    /\ bpc = "call"
    /\ ident.kind \in {"None", "UserId"}
    /\ broadcaster' = IF ident.kind = "None" THEN BOk(self_user) ELSE BOk(ident.id)
    /\ bpc' = "done"
    /\ UNCHANGED <<ident, self_user, lookups, userlist>>
    /\ UNCHANGED <<tagVars, rewardVars>>

\* self.get_users(&[&broadcaster_name], &[])
LookupRequest(name) == [logins |-> <<name>>, ids |-> <<>>]

LookupLogin ==
    /\ bpc = "call"
    /\ ident.kind = "UserName"
    /\ lookups' = Append(lookups, LookupRequest(ident.name))
    /\ bpc' = "await"
    /\ UNCHANGED <<ident, self_user, userlist, broadcaster>>
    /\ UNCHANGED <<tagVars, rewardVars>>

\* the lookup answering with the last user of the list instead of the first
LastUserResult(name, answer) ==
    IF ~answer.ok THEN BErr(answer.err)
    ELSE IF answer.users = <<>> THEN BErr(NoUser(name))
    ELSE BOk(answer.users[Len(answer.users)].id)

\* the `match self.get_users(..).await` of the UserName arm
LookupResult(name, answer) ==
    IF ~answer.ok THEN BErr(answer.err)
    ELSE IF answer.users = <<>> THEN BErr(NoUser(name))
    ELSE BOk(answer.users[1].id)

UserIds == {1, 2, 3}
Nicknames == {"ghost", "alice"}
Users == {User(id, login) : id \in UserIds, login \in Nicknames}
UserLists == UNION {[1..k -> Users] : k \in 0..MaxUsers}

GetUsersOk ==
    /\ bpc = "await"
    /\ \E users \in UserLists : userlist' = UsersOk(users)
    /\ broadcaster' = LookupResult(ident.name, userlist')
    /\ bpc' = "done"
    /\ UNCHANGED <<ident, self_user, lookups>>
    /\ UNCHANGED <<tagVars, rewardVars>>

GetUsersErr ==
    /\ bpc = "await"
    /\ \E e \in Errors : userlist' = UsersErr(Transport(e))
    /\ broadcaster' = LookupResult(ident.name, userlist')
    /\ bpc' = "done"
    /\ UNCHANGED <<ident, self_user, lookups>>
    /\ UNCHANGED <<tagVars, rewardVars>>

NextBroadcaster == ResolveLocal \/ LookupLogin \/ GetUsersOk \/ GetUsersErr

\* ---- inputs
TagNameOpts == {None, Some(Str_Foo), Some(Str_bar)}
RequestNames == {Str_foo, Str_BAR}

SeqsUpTo(S, n) == UNION {[1..k -> S] : k \in 0..n}

TagShapes == [localization_names : [Locales -> TagNameOpts], is_auto : BOOLEAN]

\* catalogs of hand-enumerated tags; the remote gives every tag its own id
RichCatalogs ==
    {[i \in 1..Len(shapes) |-> TwitchTag(i, shapes[i].localization_names, shapes[i].is_auto)] :
        shapes \in SeqsUpTo(TagShapes, MaxTags)}

PlainTag(i) == TwitchTag(i, [l \in Locales |-> IF l = "en-us" THEN Some(Str_bar) ELSE None], FALSE)
PlainCatalog(total) == [i \in 1..total |-> PlainTag(i)]

IdleTags ==
    /\ remote = Script(<<>>)
    /\ names = <<>>
    /\ locale = "en-us"
    /\ tags = <<>>
    /\ pagination = None
    /\ requests = <<>>
    /\ responses = <<>>
    /\ tpc = "idle"
    /\ picked = <<>>
    /\ result = Pending

IdleReward ==
    /\ query = <<>>
    /\ rewards = <<>>
    /\ matcher = {}
    /\ consulted = <<>>
    /\ rpc = "idle"
    /\ found = FoundPending

IdleBroadcaster ==
    /\ ident = IdentNone
    /\ self_user = 0
    /\ lookups = <<>>
    /\ userlist = NoAnswer
    /\ bpc = "idle"
    /\ broadcaster = BPending

InitCall ==
    /\ tags = <<>>
    /\ pagination = None
    /\ requests = <<>>
    /\ responses = <<>>
    /\ tpc = "request"
    /\ picked = <<>>
    /\ result = Pending

\* get_tag_ids_matching against a paging provider: small catalogs of every shape,
\* and long plain ones
InitTags ==
    /\ InitCall
    /\ names \in SeqsUpTo(RequestNames, MaxNames)
    /\ locale \in Locales
    /\ \/ \E c \in RichCatalogs : remote = Provider(c, 0, "-")
       \/ /\ names = <<Str_BAR>>
          /\ locale = "en-us"
          /\ \E total \in 0..MaxTotalItems, failAt \in 0..3, e \in Errors :
                /\ failAt = 0 => e = "timeout"
                /\ failAt <= (total \div PageSize) + 1
                /\ remote = Provider(PlainCatalog(total), failAt, e)
    /\ IdleReward /\ IdleBroadcaster

InitReward ==
    /\ query \in Queries
    /\ rewards = <<>>
    /\ matcher = {}
    /\ consulted = <<>>
    /\ rpc = "call"
    /\ found = FoundPending
    /\ IdleTags /\ IdleBroadcaster

InitBroadcaster ==
    /\ ident \in {IdentNone} \cup {IdentUserId(i) : i \in UserIds}
                 \cup {IdentUserName(n) : n \in Nicknames}
    /\ self_user \in UserIds
    /\ lookups = <<>>
    /\ userlist = NoAnswer
    /\ bpc = "call"
    /\ broadcaster = BPending
    /\ IdleTags /\ IdleReward

\* one call of one of the three operations
Init == InitTags \/ InitReward \/ InitBroadcaster

Next == NextTags \/ NextReward \/ NextBroadcaster

Spec == Init /\ [][Next]_vars

\* an arbitrary remote: any pages, any cursors, any failure, scripted per request
ScriptItems == {PlainTag(1), PlainTag(2)}
ScriptPages == SeqsUpTo(ScriptItems, MaxPageLen)
Cursors == {1, 2}
MorePages == {PageOk(d, Some(c)) : d \in ScriptPages, c \in Cursors}
LastPages == {PageOk(d, None) : d \in ScriptPages} \cup {PageErr(e) : e \in Errors}
Scripts ==
    UNION {{s \in [1..k -> MorePages \cup LastPages] :
              /\ s[k] \in LastPages
              /\ \A i \in 1..(k - 1) : s[i] \in MorePages} : k \in 1..MaxPages}

InitPages ==
    /\ InitCall
    /\ names \in {<<Str_BAR>>, <<Str_foo>>}
    /\ locale = "en-us"
    /\ \E s \in Scripts : remote = Script(s)
    /\ IdleReward /\ IdleBroadcaster

SpecPages == InitPages /\ [][NextTags]_vars

\* ================================================================== properties
\* Vocabulary of the properties, stated on the data and not through the operators above.
CaseFold(s) ==
    [i \in 1..Len(s) |->
        CASE s[i] = "F" -> "f" [] s[i] = "O" -> "o" [] s[i] = "B" -> "b"
          [] s[i] = "A" -> "a" [] s[i] = "R" -> "r" [] OTHER -> s[i]]

SameIgnoringCase(a, b) == CaseFold(a) = CaseFold(b)

NameUnder(t, loc) == t.localization_names[loc]

\* t is not auto-generated and its display name under the requested locale equals name
LocaleMatch(t, name) ==
    /\ ~t.is_auto
    /\ NameUnder(t, locale) # None
    /\ SameIgnoringCase(NameUnder(t, locale)[1], name)

\* t is not auto-generated and its "en-us" display name equals name
EnglishMatch(t, name) ==
    /\ ~t.is_auto
    /\ NameUnder(t, "en-us") # None
    /\ SameIgnoringCase(NameUnder(t, "en-us")[1], name)

\* t matches through "en-us" and has no display name at all under the requested locale
FallbackMatch(t, name) == EnglishMatch(t, name) /\ NameUnder(t, locale) = None

\* the position in the output of the ID returned for the k-th requested name
OutPos(k) == Cardinality({j \in 1..k : picked[j] # 0})
IdFor(k) == result.ids[OutPos(k)]

TagsDone == tpc = "done" /\ result.kind = "Ok"

\* ---- C1
\* C1 as stated: a name that some non-auto-generated tag carries under the requested
\* locale resolves to a requested-locale match, wherever the tags stand in the catalog.
C1_LocaleAlwaysWins ==
    TagsDone =>
        \A k \in 1..Len(names) :
            (\E i \in 1..Len(tags) : LocaleMatch(tags[i], names[k])) =>
                /\ picked[k] # 0
                /\ IdFor(k) = tags[picked[k]].id
                /\ LocaleMatch(tags[picked[k]], names[k])

\* C1 amended: such a name is always resolved, to the first tag in catalog order that
\* is a requested-locale match or a fallback match (no name under the requested locale,
\* "en-us" name equal); a requested-locale match wins only over fallback matches that
\* come after it.
C1_FirstMatchInCatalogOrder ==
    TagsDone =>
        \A k \in 1..Len(names) :
            (\E i \in 1..Len(tags) : LocaleMatch(tags[i], names[k])) =>
                /\ picked[k] # 0
                /\ IdFor(k) = tags[picked[k]].id
                /\ \/ LocaleMatch(tags[picked[k]], names[k])
                   \/ FallbackMatch(tags[picked[k]], names[k])
                /\ \A j \in 1..(picked[k] - 1) :
                      /\ ~LocaleMatch(tags[j], names[k])
                      /\ ~FallbackMatch(tags[j], names[k])

C1_Witness ==
    /\ TagsDone
    /\ \E k \in 1..Len(names), i, j \in 1..Len(tags) :
          /\ i < j
          /\ LocaleMatch(tags[i], names[k])
          /\ FallbackMatch(tags[j], names[k])
          /\ picked[k] = i

\* ---- C2
\* C2 as stated: a non-auto-generated tag whose requested-locale name does not equal
\* the name (absent or different) and whose "en-us" name equals it is returned when no
\* earlier tag matches.
C2_EnglishFallbackAlways ==
    TagsDone =>
        \A k \in 1..Len(names), i \in 1..Len(tags) :
            ( /\ EnglishMatch(tags[i], names[k])
              /\ ~LocaleMatch(tags[i], names[k])
              /\ \A j \in 1..(i - 1) :
                    ~LocaleMatch(tags[j], names[k]) /\ ~EnglishMatch(tags[j], names[k]) )
            => (picked[k] = i /\ IdFor(k) = tags[i].id)

\* C2 amended: the "en-us" fallback applies to a non-auto-generated tag that has no
\* display name under the requested locale; such a tag is returned when no earlier tag
\* matches. A tag that has a different name under the requested locale never matches
\* through "en-us".
C2_EnglishFallbackWhenNoLocaleName ==
    TagsDone =>
        \A k \in 1..Len(names), i \in 1..Len(tags) :
            /\ ( /\ FallbackMatch(tags[i], names[k])
                 /\ \A j \in 1..(i - 1) :
                       ~LocaleMatch(tags[j], names[k]) /\ ~FallbackMatch(tags[j], names[k]) )
               => (picked[k] = i /\ IdFor(k) = tags[i].id)
            /\ ( /\ picked[k] = i
                 /\ NameUnder(tags[i], locale) # None )
               => LocaleMatch(tags[i], names[k])

C2_Witness ==
    /\ TagsDone
    /\ \E k \in 1..Len(names) :
          /\ picked[k] = 2
          /\ FallbackMatch(tags[2], names[k])
          /\ NameUnder(tags[1], "en-us") # None
          /\ IdFor(k) = tags[2].id

\* ---- C3
\* C3: no tag selected for a name is auto-generated, and every ID of the output is the
\* ID of a selected tag that is not auto-generated.
C3_NoAutoGenerated ==
    TagsDone =>
        /\ \A k \in 1..Len(names) :
              picked[k] # 0 =>
                  /\ ~tags[picked[k]].is_auto
                  /\ IdFor(k) = tags[picked[k]].id
        /\ Len(result.ids) = Cardinality({k \in 1..Len(names) : picked[k] # 0})

C3_Witness ==
    /\ TagsDone
    /\ \E k \in 1..Len(names), i, j \in 1..Len(tags) :
          /\ tags[i].is_auto
          /\ NameUnder(tags[i], locale) # None
          /\ SameIgnoringCase(NameUnder(tags[i], locale)[1], names[k])
          /\ i < j
          /\ picked[k] = j

\* ---- C7
RECURSIVE Concatenation(_)
Concatenation(pages) ==
    IF pages = <<>> THEN <<>> ELSE Head(pages).data \o Concatenation(Tail(pages))

\* C7: requests go out one at a time, the first without cursor, each later one with the
\* cursor of the response before it; the loop stops at the first response without
\* cursor, and the tags returned are the pages received, concatenated in order.
C7_SequentialPaging ==
    /\ Len(requests) - Len(responses) \in {0, 1}
    /\ (Len(requests) = Len(responses) + 1) <=> (tpc = "await")
    /\ requests # <<>> => requests[1].after = None
    /\ \A i \in 2..Len(requests) :
          /\ responses[i - 1].ok
          /\ responses[i - 1].pagination # None
          /\ requests[i].after = responses[i - 1].pagination
    /\ \A i \in 1..Len(responses) :
          (responses[i].ok /\ responses[i].pagination = None) =>
              (i = Len(responses) /\ i = Len(requests) /\ tpc = "done")
    /\ tpc = "done" =>
          /\ responses[Len(responses)].ok
          /\ responses[Len(responses)].pagination = None
          /\ tags = Concatenation(responses)
    /\ tpc = "request" => tags = Concatenation(responses)

C7_Witness ==
    /\ tpc = "done"
    /\ Len(requests) = 2
    /\ requests[2].after = Some(2)
    /\ Len(tags) = 2
    /\ tags[1] # tags[2]

\* ---- C8
CeilDiv(a, b) == (a + b - 1) \div b

\* C8 as stated: against a provider that serves 100 items a page, the number of fetch
\* calls is ceil(totalItems / 100) for every totalItems >= 0.
C8_CeilFetches ==
    TagsDone => Len(requests) = CeilDiv(Len(remote.catalog), PageSize)

\* C8 amended: against a provider that serves 100 items a page and returns a cursor
\* exactly when the page it served is full, the number of fetch calls is
\* floor(totalItems / 100) + 1: ceil(totalItems / 100) when totalItems is not a multiple
\* of 100, and one more when it is (0 included, where the single fetch is the empty page).
C8_FloorPlusOneFetches ==
    TagsDone =>
        /\ Len(requests) = (Len(remote.catalog) \div PageSize) + 1
        /\ tags = remote.catalog

C8_Witness ==
    /\ TagsDone
    /\ Len(remote.catalog) = 2 * PageSize
    /\ Len(requests) = 3
    /\ responses[3].data = <<>>

\* ---- C9
\* C9: a failed page fetch is the last thing the call does: it is not requested again,
\* nothing is requested after it, and the call returns that error and no tag IDs, also
\* when pages were already accumulated.
C9_FailFast ==
    /\ \A i \in 1..Len(responses) :
          ~responses[i].ok =>
              /\ i = Len(responses)
              /\ Len(requests) = i
              /\ tpc = "failed"
              /\ result.kind = "Err"
              /\ result.err = responses[i].err
              /\ result.ids = <<>>
    /\ tpc = "failed" => ~responses[Len(responses)].ok

C9_Witness ==
    /\ tpc = "failed"
    /\ Len(responses) = 2
    /\ tags # <<>>
    /\ result.err = "unauthorized"

\* ---- C4, C5, C6
RewardsFetched == rpc = "done" /\ found.kind # "Err"

ExactIdx == {i \in 1..Len(rewards) : rewards[i].title = query}
IcIdx == {i \in 1..Len(rewards) : SameIgnoringCase(rewards[i].title, query)}
FuzzyIdx == {i \in 1..Len(rewards) : CaseFold(rewards[i].title) \in matcher}

Least(S) == CHOOSE x \in S : \A y \in S : x <= y
TheOne(S) == CHOOSE x \in S : TRUE

\* C4: with an exact title in the catalog, find_reward returns the first reward with
\* that title and evaluates tier 1 only.
C4_ExactTier ==
    (RewardsFetched /\ ExactIdx # {}) =>
        /\ found = FoundSome(rewards[Least(ExactIdx)])
        /\ consulted = <<1>>

C4_Witness ==
    /\ RewardsFetched
    /\ Cardinality(ExactIdx) >= 2
    /\ IcIdx \ ExactIdx # {}
    /\ Least(IcIdx) \notin ExactIdx

\* C5: without exact title, exactly one case-insensitive match is returned without the
\* fuzzy matcher being built; with none or several, tier 2 resolves nothing, tier 3 is
\* evaluated and whatever is returned is one of its candidates.
C5_CaseInsensitiveTier ==
    (RewardsFetched /\ ExactIdx = {}) =>
        /\ Cardinality(IcIdx) = 1 =>
              /\ found = FoundSome(rewards[TheOne(IcIdx)])
              /\ consulted = <<1, 2>>
        /\ Cardinality(IcIdx) # 1 =>
              /\ consulted = <<1, 2, 3>>
              /\ found.kind \in {"Some", "None"}
              /\ found.kind = "Some" =>
                    \E i \in FuzzyIdx : found.reward = <<rewards[i]>>

C5_Witness ==
    /\ RewardsFetched
    /\ ExactIdx = {}
    /\ Cardinality(IcIdx) = 1
    /\ Len(rewards) = 3
    /\ TheOne(IcIdx) = 2

\* C6: when tiers 1 and 2 resolved nothing, a reward is returned exactly when one
\* reward alone has a lowercased title the matcher accepts, and it is that reward; with
\* none or several the result is None.
C6_FuzzyTier ==
    (RewardsFetched /\ ExactIdx = {} /\ Cardinality(IcIdx) # 1) =>
        IF Cardinality(FuzzyIdx) = 1
        THEN found = FoundSome(rewards[TheOne(FuzzyIdx)])
        ELSE found = FoundNone

C6_Witness ==
    /\ RewardsFetched
    /\ query = Str_foo
    /\ Len(rewards) = 2
    /\ rewards[1].title = Str_Foo
    /\ rewards[2].title = Str_FOO
    /\ Cardinality(FuzzyIdx) = 2
    /\ found = FoundNone

\* ---- C10
\* C10: with a login name, exactly one lookup goes out, for that login alone; an empty
\* answer gives NoUser(login), a failed lookup gives its own error, and any other
\* answer gives the ID of its first user.
C10_ByLogin ==
    /\ Len(lookups) <= 1
    /\ (bpc = "done" /\ ident.kind = "UserName") =>
          /\ lookups = <<[logins |-> <<ident.name>>, ids |-> <<>>]>>
          /\ ~userlist.ok =>
                (broadcaster.kind = "Err" /\ broadcaster.err = userlist.err)
          /\ (userlist.ok /\ userlist.users = <<>>) =>
                (broadcaster.kind = "Err" /\ broadcaster.err = <<"NoUser", ident.name>>)
          /\ (userlist.ok /\ userlist.users # <<>>) =>
                (broadcaster.kind = "Ok" /\ broadcaster.id = userlist.users[1].id)
    /\ (bpc = "done" /\ ident.kind # "UserName") => lookups = <<>>

C10_Witness ==
    /\ bpc = "done"
    /\ ident.kind = "UserName"
    /\ Len(userlist.users) = 2
    /\ userlist.users[1].id # userlist.users[2].id
    /\ broadcaster.kind = "Ok"

====
